---------------------------- MODULE Spec2Model ----------------------------
(***************************************************************************)
(* SophiaScribbles, src/server.js: the express application that serves    *)
(* the blog API (posts in ./blogs + ./blogs/metadata.json, the about       *)
(* record, the newsletter subscribers) behind a session login.             *)
(*                                                                         *)
(* Granularity.  A handler is an async function: it runs without           *)
(* interruption from one `await` to the next, and other requests run       *)
(* while it waits.  Every `await`ed file operation is one step of the      *)
(* model: the operation takes effect at the moment the handler resumes,    *)
(* and the code up to the next `await` runs in the same step.  A file      *)
(* write replaces the whole file at once.                                  *)
(*                                                                         *)
(* Strings are kept run-length encoded (a sequence of runs [c, n] of the   *)
(* same character), so that a title of 201 characters or a content of      *)
(* 1,000,001 characters is a small value and the length caps of the code   *)
(* keep their real numbers.                                                *)
(***************************************************************************)
EXTENDS Integers, Sequences, FiniteSets, TLC

(***************************************************************************)
(* Strings                                                                 *)
(***************************************************************************)
Upper == <<"A","B","C","D","E","F","G","H","I","J","K","L","M",
           "N","O","P","Q","R","S","T","U","V","W","X","Y","Z">>

Lower == <<"a","b","c","d","e","f","g","h","i","j","k","l","m",
           "n","o","p","q","r","s","t","u","v","w","x","y","z">>

Digit == <<"0","1","2","3","4","5","6","7","8","9">>

SeqRange(q) == {q[i] : i \in DOMAIN q}

Whitespace == {" ", "\t", "\n", "\r"}

Run(c, n) == [c |-> c, n |-> n]

\* The normal form of a run sequence: no empty run, no two neighbouring runs
\* of the same character.  Two strings are equal iff their normal forms are.
RECURSIVE Norm(_)
Norm(s) ==
    IF s = <<>> THEN <<>>
    ELSE IF Head(s).n = 0 THEN Norm(Tail(s))
    ELSE LET rest == Norm(Tail(s))
         IN  IF rest # <<>> /\ Head(rest).c = Head(s).c
             THEN <<Run(Head(s).c, Head(s).n + Head(rest).n)>> \o Tail(rest)
             ELSE <<Head(s)>> \o rest

\* The string made of the characters of the tuple t, in order.
Lit(t) == Norm([i \in DOMAIN t |-> Run(t[i], 1)])

\* c repeated n times
Rep(c, n) == Norm(<<Run(c, n)>>)

EmptyStr == <<>>

\* s + t
Concat(s, t) == Norm(s \o t)

RECURSIVE StrLen(_)
\* s.length
StrLen(s) == IF s = <<>> THEN 0 ELSE Head(s).n + StrLen(Tail(s))

RECURSIVE Substring(_, _)
\* s.substring(0, k)
Substring(s, k) ==
    IF s = <<>> \/ k <= 0 THEN <<>>
    ELSE IF Head(s).n >= k THEN <<Run(Head(s).c, k)>>
    ELSE <<Head(s)>> \o Substring(Tail(s), k - Head(s).n)

\* String.prototype.toLowerCase, character by character
ToLowerChar(c) ==
    IF \E i \in DOMAIN Upper : Upper[i] = c
    THEN Lower[CHOOSE i \in DOMAIN Upper : Upper[i] = c]
    ELSE c

ToLowerCase(s) == Norm([i \in DOMAIN s |-> Run(ToLowerChar(s[i].c), s[i].n)])

IsAlnum(c) == c \in SeqRange(Upper) \cup SeqRange(Lower) \cup SeqRange(Digit)

\* (mutant) the string with every character kept
ReplaceOutside_Keep(s, keep) == s

\* s.replace(/[^...]/g, '-') for a character class given as a set
ReplaceOutside(s, keep) ==
    Norm([i \in DOMAIN s |-> Run(IF s[i].c \in keep THEN s[i].c ELSE "-", s[i].n)])

RECURSIVE TrimLeft(_)
TrimLeft(s) ==
    IF s # <<>> /\ Head(s).c \in Whitespace THEN TrimLeft(Tail(s)) ELSE s

RECURSIVE TrimRight(_)
TrimRight(s) ==
    IF s # <<>> /\ s[Len(s)].c \in Whitespace
    THEN TrimRight(SubSeq(s, 1, Len(s) - 1))
    ELSE s

\* String.prototype.trim and the validator's trim()
Trim(s) == TrimRight(TrimLeft(s))

RECURSIVE NatToStr(_)
\* the decimal digits of n, as Date.now() + '-' and Date.now().toString() give
NatToStr(n) ==
    IF n < 10 THEN Lit(<<Digit[n + 1]>>)
    ELSE Concat(NatToStr(n \div 10), Lit(<<Digit[(n % 10) + 1]>>))

\* the characters of s, as a set
Chars(s) == {s[i].c : i \in DOMAIN s}


RECURSIVE RepStr(_, _)
\* the string t written n times
RepStr(t, n) == IF n = 0 THEN <<>> ELSE Concat(t, RepStr(t, n - 1))

\* the character U+0060, which a TLA+ string cannot hold
Backtick == "BACKTICK"

\* validator.js escape(): the replacement of one character
EntityOf(c) ==
    CASE c = "&"  -> Lit(<<"&","a","m","p",";">>)
      [] c = "<"  -> Lit(<<"&","l","t",";">>)
      [] c = ">"  -> Lit(<<"&","g","t",";">>)
      [] c = "\"" -> Lit(<<"&","q","u","o","t",";">>)
      [] c = "'"  -> Lit(<<"&","#","x","2","7",";">>)
      [] c = "/"  -> Lit(<<"&","#","x","2","F",";">>)
      [] c = "\\" -> Lit(<<"&","#","x","5","C",";">>)
      [] c = Backtick -> Lit(<<"&","#","9","6",";">>)
      [] OTHER    -> Lit(<<c>>)

RECURSIVE Escape(_)
\* the validator's escape() sanitizer
Escape(s) ==
    IF s = <<>> THEN <<>>
    ELSE Concat(IF EntityOf(Head(s).c) = Lit(<<Head(s).c>>) THEN <<Head(s)>>
                ELSE RepStr(EntityOf(Head(s).c), Head(s).n),
                Escape(Tail(s)))

(***************************************************************************)
(* Configuration and constants of server.js                                *)
(***************************************************************************)
\* cookie.maxAge of the session middleware, in milliseconds
SESSION_MAX_AGE == 24 * 60 * 60 * 1000

\* loginLimiter: windowMs and max
LOGIN_WINDOW == 15 * 60 * 1000

LOGIN_MAX == 5

TITLE_MAX == 200

CONTENT_MAX == 1000000

AUTHOR_MAX == 100

EXCERPT_MAX == 300

AUTO_EXCERPT_LEN == 150

ABOUT_CONTENT_MAX == 100000

USERNAME_MAX == 50

PASSWORD_MAX == 100

EMAIL_MAX == 100

\* process.env.ADMIN_USERNAME / ADMIN_PASSWORD of the deployment
Sophia == Lit(<<"s","o","p","h","i","a">>)

Secret == Lit(<<"p","w","1">>)

EnvChoices == {[ADMIN_USERNAME |-> Sophia, ADMIN_PASSWORD |-> Secret]}

(***************************************************************************)
(* Bounds of the model                                                     *)
(***************************************************************************)
\* how many times the clock advances in a run of the login specification
MaxTicks == 2

\* how many milliseconds pass in a run of the other specifications
MaxMs == 1

\* how many create requests are accepted for handling in a run
MaxCreates == 2

\* how many subscribe requests are accepted for handling in a run
MaxSubscribes == 3

\* The clients (cookie jars).  A browser stops sending a cookie once the
\* cookie's expiry date has passed; the other client keeps sending it.
Clients == {"c1", "c2"}

Browsers == {"c1"}

\* the requests that can be in flight at once
Slots == {"r1", "r2"}

VARIABLES
    now,            \* Date.now(), in milliseconds since the server started
    ticks,          \* how many times the clock has advanced
    env,            \* process.env: ADMIN_USERNAME, ADMIN_PASSWORD
    loginHits,      \* loginLimiter's store, per source address: hits, resetTime
    up,             \* the server process is running and listening
    absent,         \* which of metadata.json and newsletter-subscribers.json do not exist
    sessionStore,   \* per client: the stored session its cookie names ({} when none)
    cookieJar,      \* per client: the session cookie it holds ({} when none)
    metadata,       \* ./blogs/metadata.json: the sequence of post records
    files,          \* the content files of ./blogs: file name -> content
    aboutFile,      \* ./about.json ({} when absent)
    subscribers,    \* ./newsletter-subscribers.json: the sequence of subscribers
    slot,           \* per request slot: the request in flight and its position
    resp,           \* the latest response: the request it answers, as answered
    ev,             \* the login request handled by the latest step, if any
    nextUid,        \* (history) the number of create requests taken up so far
    nextSub,        \* (history) the number of subscribe requests taken up so far
    phase,          \* (history) per client: "never" logged in, logged "in", logged "out"
    issuedAt,       \* (history) per client: when its session cookie was last issued
    firstWritten,   \* (history) uid -> the record as first written to the index
    submitted,      \* (history) uid -> the inline markdown of a create that succeeded
    deleted         \* (history) the ids whose DELETE was answered OK

vars == <<now, ticks, env, absent, loginHits, up, sessionStore, cookieJar, metadata, files,
          aboutFile, subscribers, slot, resp, ev, nextUid, nextSub, phase, issuedAt,
          firstWritten, submitted, deleted>>

procVars == <<loginHits, up>>

authVars == <<sessionStore, cookieJar>>

diskVars == <<metadata, files, aboutFile, subscribers>>

histVars == <<nextUid, nextSub, firstWritten, submitted>>

(***************************************************************************)
(* The session middleware (express-session, MemoryStore)                   *)
(***************************************************************************)
\* a new session object: no isAdmin, no username
EmptySession == [isAdmin |-> FALSE, username |-> EmptyStr, expires |-> 0, since |-> -1]

\* the request of client c carries a session cookie
Presented(c) ==
    /\ cookieJar[c] # {}
    /\ c \in Browsers => \A k \in cookieJar[c] : now < k.expires

\* MemoryStore.get: the cookie names a stored session that has not expired
Live(c) == Presented(c) /\ \E s \in sessionStore[c] : now < s.expires

\* req.session as the handler sees it
ReqSession(c) ==
    IF Live(c) THEN CHOOSE s \in sessionStore[c] : TRUE ELSE EmptySession

\* (mutant) the check of the session object alone: `if (req.session)`
requireAuth_SessionOnly(c) == ReqSession(c) \in {ReqSession(c)}

\* requireAuth: req.session && req.session.isAdmin
requireAuth(c) == ReqSession(c).isAdmin

\* the cookie jar of c after the request: a browser has dropped an expired cookie
JarNow(c) ==
    IF c \in Browsers /\ \E k \in cookieJar[c] : now >= k.expires
    THEN {} ELSE cookieJar[c]

\* session.touch(): the expiry is moved to maxAge from now
Touch(ss) == {[s EXCEPT !.expires = now + SESSION_MAX_AGE] : s \in ss}

\* The store entry of c after a request that left req.session as it was: an
\* existing session is touched at the end of the response, a new one is not
\* stored (saveUninitialized: false), an expired entry is removed by get.
StoreUnmodified(c) == IF Live(c) THEN Touch(sessionStore[c]) ELSE {}

\* The session effects of a request of c that is answered in one step.
SessionPassThrough(c) ==
    /\ sessionStore' = [sessionStore EXCEPT ![c] = StoreUnmodified(c)]
    /\ cookieJar' = [cookieJar EXCEPT ![c] = JarNow(c)]

\* The session effects of the first step of a request that is answered later.
SessionLoad(c) ==
    /\ sessionStore' = [sessionStore EXCEPT ![c] = IF Live(c) THEN @ ELSE {}]
    /\ cookieJar' = [cookieJar EXCEPT ![c] = JarNow(c)]

\* The end of a response that began earlier with the session issued at sid:
\* MemoryStore.touch moves the expiry of that session if it is still stored.
SessionEnd(c, sid) ==
    /\ sessionStore' =
          [sessionStore EXCEPT ![c] =
              IF \E s \in @ : s.since = sid /\ now < s.expires THEN Touch(@)
              ELSE IF \E s \in @ : s.since = sid THEN {}
              ELSE @]
    /\ UNCHANGED cookieJar

\* the issue time of the session the request loaded, -1 for a new session
SidOf(c) == ReqSession(c).since

(***************************************************************************)
(* Requests                                                                *)
(***************************************************************************)
\* HTTP statuses
OK == 200

BadRequest == 400

Unauthorized == 401

NotFound == 404

Internal == 500

\* the statusCode of a request over the limit of a rate limiter (the default of
\* express-rate-limit)
TooManyRequests == 429

\* the status of the Conflict outcome; server.js never sends it (a duplicate
\* subscription is answered with res.status(400))
Conflict == 409

\* marked(content): the external markdown renderer, a pure function of its input
Marked(s) == <<"html", s>>

\* A request.  kind: the endpoint; pc: the position of its handler ("idle", an
\* await of the handler, "done"); status/body: the response; loc: the handler's
\* local variables; sid: the session the request loaded.
\* ph, fresh, alone, prior and pre are history: the client's phase when the
\* request was received, whether that was less than the session lifetime after
\* the client's cookie was issued, whether no other request has been in flight
\* since the request was received, the id deleted by the request directly before
\* it, and the disk as it was when the request was received.
IdleSlot ==
    [pc |-> "idle", kind |-> "none", client |-> "-", sid |-> -1, arg |-> <<>>,
     status |-> 0, body |-> <<>>, loc |-> <<>>,
     ph |-> "never", fresh |-> FALSE, alone |-> FALSE, prior |-> {}, pre |-> <<>>]

Free(r) == slot[r].pc = "idle"

InFlight(r) == ~Free(r)

\* the id whose DELETE was answered OK by the latest response, when that
\* request ran alone and no request is in flight now
PriorDeleted ==
    IF resp.kind = "deleteBlog" /\ resp.status = OK /\ resp.alone
       /\ \A q \in Slots : Free(q)
    THEN {resp.arg}
    ELSE {}

\* the request of client c to endpoint kind, as received now in slot r
NewReq(r, kind, c, arg) ==
    [IdleSlot EXCEPT !.pc = "recv", !.kind = kind, !.client = c, !.sid = SidOf(c),
                     !.arg = arg, !.ph = phase[c],
                     !.fresh = (now < issuedAt[c] + SESSION_MAX_AGE),
                     !.alone = (\A q \in Slots \ {r} : Free(q)),
                     !.prior = PriorDeleted]

\* the response
Answer(req, status, body) ==
    [req EXCEPT !.pc = "done", !.status = status, !.body = body, !.loc = <<>>]

\* the handler waits at an await
Await(req, pc, loc) == [req EXCEPT !.pc = pc, !.loc = loc]

\* a request can be received in slot r
Begin(r) == up /\ Free(r)

\* The request received in slot r goes on as new, or is answered at once; the
\* requests in flight no longer run alone.
Recv(r, new) ==
    /\ slot' = [q \in Slots |->
                   IF q = r THEN IF new.pc = "done" THEN IdleSlot ELSE new
                   ELSE [slot[q] EXCEPT !.alone = FALSE]]
    /\ resp' = IF new.pc = "done" THEN new ELSE resp

\* The request in slot r goes on as new, or is answered.
Step(r, new) ==
    /\ up
    /\ slot' = [slot EXCEPT ![r] = IF new.pc = "done" THEN IdleSlot ELSE new]
    /\ resp' = IF new.pc = "done" THEN new ELSE resp

NoEvent == [kind |-> "none"]

(***************************************************************************)
(* POST /api/login, POST /api/logout, GET /api/auth/status                 *)
(***************************************************************************)
\* body('username').trim().isLength({min: 1, max: 50}).escape() and
\* body('password').isLength({min: 1, max: 100}): the validation passes
LoginInputValid(u, p) ==
    /\ StrLen(Trim(u)) >= 1 /\ StrLen(Trim(u)) <= USERNAME_MAX
    /\ StrLen(p) >= 1 /\ StrLen(p) <= PASSWORD_MAX

\* req.body.username after the sanitizers of the chain
SanitizedUsername(u) == Escape(Trim(u))

\* (mutant) the comparison of the username alone
CredentialsMatch_UsernameOnly(username, password) == username = env.ADMIN_USERNAME

\* username === process.env.ADMIN_USERNAME && password === process.env.ADMIN_PASSWORD
CredentialsMatch(username, password) ==
    username = env.ADMIN_USERNAME /\ password = env.ADMIN_PASSWORD

\* the session saved for a login that changed req.session, with its new cookie
SavedSession(sess) ==
    [sess EXCEPT !.expires = now + SESSION_MAX_AGE, !.since = now]

\* loginLimiter's record of an address that has made no request
NoHits == [hits |-> 0, resetTime |-> 0]

\* The record of the address of c once this request is counted: a first request,
\* or one after the window has run out, opens a window of windowMs.  The count
\* stops at max + 1: every count above max has the same effect.
Hit(c) ==
    LET w == loginHits[c]
    IN  IF w.hits = 0 \/ w.resetTime <= now
        THEN [hits |-> 1, resetTime |-> now + LOGIN_WINDOW]
        ELSE [w EXCEPT !.hits = IF w.hits > LOGIN_MAX THEN w.hits ELSE w.hits + 1]

\* (mutant) the limit that lets one request more through
Limited_OneMore(w) == w.hits > LOGIN_MAX + 1

\* the request is over the limit: totalHits > max
Limited(w) == w.hits > LOGIN_MAX

\* loginLimiter, the validation chain, the handler
Login(r, c, u, p) ==
    /\ Begin(r)
    /\ loginHits' = [loginHits EXCEPT ![c] = Hit(c)]
    /\ LET req == NewReq(r, "login", c, [username |-> u, password |-> p])
           username == SanitizedUsername(u)
           loaded == ReqSession(c)
           after == [loaded EXCEPT !.isAdmin = TRUE, !.username = username]
       IN  IF Limited(Hit(c))
           THEN /\ Recv(r, Answer(req, TooManyRequests, "Too many login attempts"))
                /\ SessionPassThrough(c)
                /\ ev' = [kind |-> "login", client |-> c, username |-> username,
                          password |-> p, status |-> TooManyRequests]
                /\ UNCHANGED <<phase, issuedAt>>
           ELSE IF ~LoginInputValid(u, p)
           THEN /\ Recv(r, Answer(req, BadRequest, "Invalid input"))
                /\ SessionPassThrough(c)
                /\ ev' = [kind |-> "login", client |-> c, username |-> username,
                          password |-> p, status |-> BadRequest]
                /\ UNCHANGED <<phase, issuedAt>>
           ELSE IF CredentialsMatch(username, p)
           THEN /\ Recv(r, Answer(req, OK, "Login successful"))
                /\ IF after = loaded
                   THEN SessionPassThrough(c) /\ UNCHANGED issuedAt
                   ELSE /\ sessionStore' = [sessionStore EXCEPT ![c] = {SavedSession(after)}]
                        /\ cookieJar' = [cookieJar EXCEPT
                                            ![c] = {[expires |-> now + SESSION_MAX_AGE]}]
                        /\ issuedAt' = [issuedAt EXCEPT ![c] = now]
                /\ phase' = [phase EXCEPT ![c] = "in"]
                /\ ev' = [kind |-> "login", client |-> c, username |-> username,
                          password |-> p, status |-> OK]
           ELSE /\ Recv(r, Answer(req, Unauthorized, "Invalid credentials"))
                /\ SessionPassThrough(c)
                /\ ev' = [kind |-> "login", client |-> c, username |-> username,
                          password |-> p, status |-> Unauthorized]
                /\ UNCHANGED <<phase, issuedAt>>
    /\ UNCHANGED <<now, ticks, env, absent, up, deleted, diskVars, histVars>>

\* req.session.destroy(): the stored session is removed; the cookie is not cleared
Logout(r, c) ==
    /\ Begin(r)
    /\ Recv(r,
                   Answer(NewReq(r, "logout", c, <<>>), OK, "Logged out successfully"))
    /\ sessionStore' = [sessionStore EXCEPT ![c] = {}]
    /\ cookieJar' = [cookieJar EXCEPT ![c] = JarNow(c)]
    /\ phase' = [phase EXCEPT ![c] = "out"]
    /\ ev' = NoEvent
    /\ UNCHANGED <<now, ticks, env, absent, procVars, deleted, diskVars, histVars, issuedAt>>

AuthStatus(r, c) ==
    /\ Begin(r)
    /\ Recv(r,
                   Answer(NewReq(r, "authStatus", c, <<>>), OK,
                          [authenticated |-> requireAuth(c)]))
    /\ SessionPassThrough(c)
    /\ ev' = NoEvent
    /\ UNCHANGED <<now, ticks, env, absent, procVars, deleted, diskVars, histVars, phase, issuedAt>>

\* the clock advances by d milliseconds, at most max times in a run
Tick(d, max) ==
    /\ ticks < max
    /\ now' = now + d
    /\ ticks' = ticks + 1
    /\ ev' = NoEvent
    /\ UNCHANGED <<env, absent, procVars, deleted, authVars, diskVars, slot, resp, histVars, phase, issuedAt>>

(***************************************************************************)
(* GET /api/about, PUT /api/about                                          *)
(***************************************************************************)
\* the default record initializeStorage writes: its title, and its content cut
\* to the first line (every endpoint treats the content as an opaque string)
DefaultAbout ==
    [title |-> Lit(<<"A","b","o","u","t"," ","S","o","p","h","i","a">>),
     content |-> Lit(<<"#"," ","A","b","o","u","t"," ","M","e">>)]

GetAbout(r, c) ==
    /\ Begin(r)
    /\ LET req == NewReq(r, "getAbout", c, <<>>)
       IN  Recv(r,
              IF aboutFile = {} THEN Answer(req, Internal, "Failed to load about page")
              ELSE LET about == CHOOSE a \in aboutFile : TRUE
                   IN  Answer(req, OK, [title |-> about.title, content |-> about.content,
                                        htmlContent |-> Marked(about.content)]))
    /\ SessionPassThrough(c)
    /\ ev' = NoEvent
    /\ UNCHANGED <<now, ticks, env, absent, procVars, deleted, diskVars, histVars, phase, issuedAt>>

\* the empty string stands for a field the request does not carry: both are falsy
PutAbout(r, c, title, content) ==
    /\ Begin(r)
    /\ LET req == NewReq(r, "putAbout", c, [title |-> title, content |-> content])
           aboutData == [title |-> Substring(title, TITLE_MAX),
                         content |-> Substring(content, ABOUT_CONTENT_MAX)]
       IN  IF ~requireAuth(c)
           THEN /\ Recv(r, Answer(req, Unauthorized, "Unauthorized"))
                /\ UNCHANGED aboutFile
           ELSE IF title = EmptyStr \/ content = EmptyStr
           THEN /\ Recv(r, Answer(req, BadRequest, "Title and content are required"))
                /\ UNCHANGED aboutFile
           ELSE IF StrLen(title) > TITLE_MAX
           THEN /\ Recv(r, Answer(req, BadRequest, "Title must be less than 200 characters"))
                /\ UNCHANGED aboutFile
           ELSE IF StrLen(content) > ABOUT_CONTENT_MAX
           THEN /\ Recv(r, Answer(req, BadRequest, "Content is too large (max 100KB)"))
                /\ UNCHANGED aboutFile
           ELSE /\ aboutFile' = {aboutData}
                /\ Recv(r,
                      Answer(req, OK, [title |-> aboutData.title, content |-> aboutData.content,
                                       htmlContent |-> Marked(aboutData.content)]))
    /\ SessionPassThrough(c)
    /\ ev' = NoEvent
    /\ UNCHANGED <<now, ticks, env, absent, procVars, deleted, metadata, files, subscribers, histVars, phase, issuedAt>>

(***************************************************************************)
(* The file system under ./blogs                                           *)
(***************************************************************************)
\* fs.writeFile(name, data)
WriteFile(fs, name, data) ==
    [n \in DOMAIN fs \cup {name} |-> IF n = name THEN data ELSE fs[n]]

\* fs.unlink(name), for a name that exists
Unlink(fs, name) == [n \in DOMAIN fs \ {name} |-> fs[n]]

SetMax(S) == CHOOSE x \in S : \A y \in S : y <= x

\* path.basename(p)
Basename(p) ==
    LET q == IF p # <<>> /\ p[Len(p)].c = "/" THEN SubSeq(p, 1, Len(p) - 1) ELSE p
        slashes == {i \in DOMAIN q : q[i].c = "/"}
    IN  IF slashes = {} THEN q ELSE SubSeq(q, SetMax(slashes) + 1, Len(q))

\* sanitizePath(filename)
sanitizePath(filename) == Basename(filename)

\* path.extname(p): from the last '.' of the basename, '' when there is none or
\* when it is the first character of the basename
Extname(p) ==
    LET b == Basename(p)
        dots == {i \in DOMAIN b : b[i].c = "."}
    IN  IF dots = {} THEN EmptyStr
        ELSE LET i == SetMax(dots)
             IN  IF i = 1 /\ (b[1].n = 1 \/ Len(b) = 1) THEN EmptyStr
                 ELSE Concat(Rep(".", 1), SubSeq(b, i + 1, Len(b)))

AllowedExtensions ==
    {Lit(<<".","m","d">>), Lit(<<".","m","a","r","k","d","o","w","n">>),
     Lit(<<".","t","x","t">>)}

\* fileFilter: the extension of the original name, lowercased, is allowed
fileFilter(originalname) == ToLowerCase(Extname(originalname)) \in AllowedExtensions

\* limits.fileSize of the upload
UPLOAD_MAX == 5 * 1024 * 1024

\* storage.filename: Date.now() + '-' + the sanitized original name
UploadName(originalname) ==
    Concat(NatToStr(now),
           Concat(Rep("-", 1),
                  ToLowerCase(ReplaceOutside(originalname,
                     SeqRange(Upper) \cup SeqRange(Lower) \cup SeqRange(Digit) \cup {".", "-"}))))

\* the file name of a post created with inline content:
\* Date.now() + '-' + title.replace(/[^a-zA-Z0-9-]/g, '-').toLowerCase() + '.md'
InlineName(title) ==
    Concat(NatToStr(now),
           Concat(Rep("-", 1),
                  Concat(ToLowerCase(ReplaceOutside(title,
                            SeqRange(Upper) \cup SeqRange(Lower) \cup SeqRange(Digit) \cup {"-"})),
                         Lit(<<".","m","d">>))))

\* s.replace(/[...]/g, '') for a character class given as a set
RemoveChars(s, drop) == Norm(SelectSeq(s, LAMBDA run : run.c \notin drop))

Anonymous == Lit(<<"A","n","o","n","y","m","o","u","s">>)

\* (mutant) the excerpt with the markdown symbols left in
AutoExcerpt_NoStrip(content) == Concat(Substring(content, AUTO_EXCERPT_LEN), Rep(".", 3))

\* content.substring(0, 150).replace(/[#*_`]/g, '') + '...'
AutoExcerpt(content) ==
    Concat(RemoveChars(Substring(content, AUTO_EXCERPT_LEN), {"#", "*", "_", Backtick}),
           Rep(".", 3))

\* the record of a new post; date is the millisecond count that toISOString
\* prints and new Date(...) parses back exactly; uid is history, not stored
NewBlog(arg, content, filename, uid) ==
    [id |-> NatToStr(now),
     title |-> Substring(arg.title, TITLE_MAX),
     author |-> IF arg.author # EmptyStr THEN Substring(arg.author, AUTHOR_MAX) ELSE Anonymous,
     date |-> now,
     excerpt |-> IF arg.excerpt # EmptyStr THEN Substring(arg.excerpt, EXCERPT_MAX)
                 ELSE AutoExcerpt(content),
     filename |-> filename,
     uid |-> uid]

\* (mutant) the push that also stamps the records it read with the new date
PushBlog_Restamp(blogs, newBlog) ==
    Append([i \in DOMAIN blogs |-> [blogs[i] EXCEPT !.date = newBlog.date]], newBlog)

\* (mutant) the push that leaves the list as it was read
PushBlog_Dropped(blogs, newBlog) == blogs

\* blogs.push(newBlog)
PushBlog(blogs, newBlog) == Append(blogs, newBlog)

\* blogs.find(b => b.id === id): the matching records, first one first
FindById(blogs, id) == SelectSeq(blogs, LAMBDA b : b.id = id)

\* (mutant) the removal of the first match alone
FilterOutId_FirstOnly(blogs, id) ==
    LET hits == {i \in DOMAIN blogs : blogs[i].id = id}
    IN  IF hits = {} THEN blogs
        ELSE LET k == CHOOSE i \in hits : \A j \in hits : i <= j
             IN  SubSeq(blogs, 1, k - 1) \o SubSeq(blogs, k + 1, Len(blogs))

\* blogs.filter(b => b.id !== id)
FilterOutId(blogs, id) == SelectSeq(blogs, LAMBDA b : b.id # id)

RECURSIVE InsertByDate(_, _)
\* rec put into a sequence sorted by date, newest first, after the records that
\* are as new: the sort of the engine is stable
InsertByDate(rec, sorted) ==
    IF sorted = <<>> THEN <<rec>>
    ELSE IF Head(sorted).date >= rec.date
    THEN <<Head(sorted)>> \o InsertByDate(rec, Tail(sorted))
    ELSE <<rec>> \o sorted

\* (mutant) the list as stored, not sorted
SortByDate_Unsorted(blogs) == blogs

RECURSIVE SortByDate(_)
\* blogs.sort((a, b) => new Date(b.date) - new Date(a.date))
SortByDate(blogs) ==
    IF blogs = <<>> THEN <<>>
    ELSE InsertByDate(blogs[Len(blogs)], SortByDate(SubSeq(blogs, 1, Len(blogs) - 1)))

(***************************************************************************)
(* GET /api/blogs, GET /api/blogs/:id                                      *)
(***************************************************************************)
\* fail: the file operation of the step fails (an I/O error); the catch of the
\* handler answers Internal
ListBlogs(r, c, fail) ==
    /\ Begin(r)
    /\ LET req == NewReq(r, "listBlogs", c, <<>>)
       IN  Recv(r,
              IF fail THEN Answer(req, Internal, "Failed to load blogs")
              ELSE Answer(req, OK, SortByDate(metadata)))
    /\ SessionPassThrough(c)
    /\ ev' = NoEvent
    /\ UNCHANGED <<now, ticks, env, absent, procVars, deleted, diskVars, histVars, phase, issuedAt>>

GetBlogRecv(r, c, id, fail) ==
    /\ Begin(r)
    /\ LET req == NewReq(r, "getBlog", c, id)
           found == FindById(metadata, id)
       IN  IF fail
           THEN /\ Recv(r, Answer(req, Internal, "Failed to load blog"))
                /\ SessionPassThrough(c)
           ELSE IF found = <<>>
           THEN /\ Recv(r, Answer(req, NotFound, "Blog not found"))
                /\ SessionPassThrough(c)
           ELSE /\ Recv(r,
                      Await(req, "readContent",
                            [blog |-> found[1],
                             safeFilename |-> sanitizePath(found[1].filename)]))
                /\ SessionLoad(c)
    /\ ev' = NoEvent
    /\ UNCHANGED <<now, ticks, env, absent, procVars, deleted, diskVars, histVars, phase, issuedAt>>

GetBlogReadContent(r, fail) ==
    /\ slot[r].kind = "getBlog" /\ slot[r].pc = "readContent"
    /\ LET req == slot[r]
           name == req.loc.safeFilename
       IN  Step(r,
              IF fail \/ name \notin DOMAIN files
              THEN Answer(req, Internal, "Failed to load blog")
              ELSE Answer(req, OK, [blog |-> req.loc.blog,
                                    content |-> Marked(files[name]),
                                    rawContent |-> files[name]]))
    /\ SessionEnd(slot[r].client, slot[r].sid)
    /\ ev' = NoEvent
    /\ UNCHANGED <<now, ticks, env, absent, procVars, deleted, diskVars, histVars, phase, issuedAt>>

(***************************************************************************)
(* POST /api/blogs                                                         *)
(***************************************************************************)
\* The handler from its first line to its first await, for the request req
\* whose upload (if any) was stored as uploaded ({} or {file name}).
Validated(req, uploaded) ==
    LET title == req.arg.title
        content == req.arg.content
    IN  IF title = EmptyStr \/ StrLen(Trim(title)) = 0
        THEN Answer(req, BadRequest, "Title is required")
        ELSE IF StrLen(title) > TITLE_MAX
        THEN Answer(req, BadRequest, "Title must be less than 200 characters")
        ELSE IF uploaded # {}
        THEN Await(req, "readUpload", [filename |-> CHOOSE f \in uploaded : TRUE])
        ELSE IF content # EmptyStr
        THEN IF StrLen(content) > CONTENT_MAX
             THEN Answer(req, BadRequest, "Content is too large (max 1MB)")
             ELSE Await(req, "writeContent",
                        [filename |-> InlineName(title), content |-> content])
        ELSE Answer(req, BadRequest, "No content provided")

\* the create requests whose handler has not yet made its record
CreatesPending == {q \in Slots : slot[q].kind = "createBlog" /\ InFlight(q)
                                 /\ slot[q].pc # "writeMeta"}

\* (mutant) the chain with upload.single('file') ahead of requireAuth
UploadReached_UploadFirst(c, file) == file

\* app.post('/api/blogs', requireAuth, upload.single('file'), ...): the file
\* field that upload.single gets to see, none when requireAuth has answered
UploadReached(c, file) == IF requireAuth(c) THEN file ELSE {}

\* ./blogs after multer has handled the file field it was given
StoreUpload(file) ==
    IF \E f \in file : fileFilter(f.originalname) /\ StrLen(f.data) <= UPLOAD_MAX
    THEN LET f == CHOOSE g \in file : TRUE
         IN  WriteFile(files, UploadName(f.originalname), f.data)
    ELSE files

\* arg: title, author, excerpt, content (the empty string for a field that is
\* not sent) and file: {} or {[originalname, data]}, the multipart file field.
\* requireAuth, then upload.single('file'), then the handler.
CreateBlogRecv(r, c, arg, fail) ==
    /\ Begin(r)
    /\ nextUid + Cardinality(CreatesPending \ {r}) < MaxCreates
    /\ LET req == [NewReq(r, "createBlog", c, arg) EXCEPT
                      !.pre = [metadata |-> metadata, files |-> files]]
       IN  IF ~requireAuth(c)
           THEN /\ Recv(r, Answer(req, Unauthorized, "Unauthorized"))
                /\ SessionPassThrough(c)
                /\ files' = StoreUpload(UploadReached(c, arg.file))
           ELSE IF arg.file = {}
           THEN /\ Recv(r, Validated(req, {}))
                /\ IF Validated(req, {}).pc = "done"
                   THEN SessionPassThrough(c) ELSE SessionLoad(c)
                /\ UNCHANGED files
           ELSE LET file == CHOOSE f \in arg.file : TRUE
                IN  IF ~fileFilter(file.originalname) \/ StrLen(file.data) > UPLOAD_MAX \/ fail
                    THEN \* multer passes the error to next(err): no handler of the
                         \* application takes it, express answers 500
                         /\ Recv(r, Answer(req, Internal, "upload error"))
                         /\ SessionPassThrough(c)
                         /\ UNCHANGED files
                    ELSE /\ files' = WriteFile(files, UploadName(file.originalname), file.data)
                         /\ Recv(r,
                               Await(req, "validate",
                                     [filename |-> UploadName(file.originalname)]))
                         /\ SessionLoad(c)
    /\ ev' = NoEvent
    /\ UNCHANGED <<now, ticks, env, absent, procVars, deleted, metadata, aboutFile, subscribers, histVars, phase, issuedAt>>

\* what the build does with a promise rejection that nothing handles: Node 15
\* and later end the process, Node 14 (the oldest the README allows) warns
Rejections == {"crash", "hang"}

\* POST /api/blogs with a file when ./blogs cannot be reached and cannot be made:
\* storage.destination is an async function, `await fs.access(dir)` throws,
\* `await fs.mkdir(dir)` in the catch block throws, cb is never called and the
\* rejection of the promise is handled by no one. The process ends, or the
\* request stays without a response.
CreateBlogMkdirFails(r, c, arg, outcome) ==
    /\ Begin(r)
    /\ nextUid + Cardinality(CreatesPending \ {r}) < MaxCreates
    /\ requireAuth(c)
    /\ \E f \in arg.file : fileFilter(f.originalname)
    /\ LET req == [NewReq(r, "createBlog", c, arg) EXCEPT
                      !.pre = [metadata |-> metadata, files |-> files]]
       IN  Recv(r, Await(req, "destination", <<>>))
    /\ SessionLoad(c)
    /\ up' = (outcome # "crash")
    /\ ev' = NoEvent
    /\ UNCHANGED <<now, ticks, env, absent, loginHits, deleted, diskVars, histVars, phase, issuedAt>>

\* the handler starts once the upload is stored
CreateBlogValidate(r) ==
    /\ slot[r].kind = "createBlog" /\ slot[r].pc = "validate"
    /\ LET new == Validated(slot[r], {slot[r].loc.filename})
       IN  /\ Step(r, new)
           /\ IF new.pc = "done" THEN SessionEnd(slot[r].client, slot[r].sid)
              ELSE UNCHANGED authVars
    /\ ev' = NoEvent
    /\ UNCHANGED <<now, ticks, env, absent, procVars, deleted, diskVars, histVars, phase, issuedAt>>

\* content = await fs.readFile(req.file.path), then the size check
CreateBlogReadUpload(r, fail) ==
    /\ slot[r].kind = "createBlog" /\ slot[r].pc = "readUpload"
    /\ LET req == slot[r]
           name == req.loc.filename
           new == IF fail \/ name \notin DOMAIN files
                  THEN Answer(req, Internal, "Failed to create blog post")
                  ELSE IF StrLen(files[name]) > CONTENT_MAX
                  THEN Await(req, "unlinkUpload", [filename |-> name])
                  ELSE Await(req, "readMeta", [filename |-> name, content |-> files[name],
                                                inline |-> FALSE])
       IN  /\ Step(r, new)
           /\ IF new.pc = "done" THEN SessionEnd(req.client, req.sid)
              ELSE UNCHANGED authVars
    /\ ev' = NoEvent
    /\ UNCHANGED <<now, ticks, env, absent, procVars, deleted, diskVars, histVars, phase, issuedAt>>

\* await fs.unlink(req.file.path), then BadRequest
CreateBlogUnlinkUpload(r, fail) ==
    /\ slot[r].kind = "createBlog" /\ slot[r].pc = "unlinkUpload"
    /\ LET req == slot[r]
           name == req.loc.filename
       IN  IF fail \/ name \notin DOMAIN files
           THEN /\ Step(r, Answer(req, Internal, "Failed to create blog post"))
                /\ UNCHANGED files
           ELSE /\ files' = Unlink(files, name)
                /\ Step(r, Answer(req, BadRequest, "Content is too large (max 1MB)"))
    /\ SessionEnd(slot[r].client, slot[r].sid)
    /\ ev' = NoEvent
    /\ UNCHANGED <<now, ticks, env, absent, procVars, deleted, metadata, aboutFile, subscribers, histVars, phase, issuedAt>>

\* await fs.writeFile(`./blogs/${filename}`, content)
CreateBlogWriteContent(r, fail) ==
    /\ slot[r].kind = "createBlog" /\ slot[r].pc = "writeContent"
    /\ LET req == slot[r]
       IN  IF fail
           THEN /\ Step(r, Answer(req, Internal, "Failed to create blog post"))
                /\ SessionEnd(req.client, req.sid)
                /\ UNCHANGED files
           ELSE /\ files' = WriteFile(files, req.loc.filename, req.loc.content)
                /\ Step(r,
                      Await(req, "readMeta", [filename |-> req.loc.filename,
                                              content |-> req.loc.content, inline |-> TRUE]))
                /\ UNCHANGED authVars
    /\ ev' = NoEvent
    /\ UNCHANGED <<now, ticks, env, absent, procVars, deleted, metadata, aboutFile, subscribers, histVars, phase, issuedAt>>

\* blogs = JSON.parse(await fs.readFile(metadata.json)); newBlog; blogs.push(newBlog)
CreateBlogReadMeta(r, fail) ==
    /\ slot[r].kind = "createBlog" /\ slot[r].pc = "readMeta"
    /\ LET req == slot[r]
           newBlog == NewBlog(req.arg, req.loc.content, req.loc.filename, nextUid + 1)
       IN  IF fail
           THEN /\ Step(r, Answer(req, Internal, "Failed to create blog post"))
                /\ SessionEnd(req.client, req.sid)
                /\ UNCHANGED nextUid
           ELSE /\ Step(r,
                      Await(req, "writeMeta",
                            [blogs |-> PushBlog(metadata, newBlog), newBlog |-> newBlog,
                             content |-> req.loc.content, inline |-> req.loc.inline]))
                /\ nextUid' = nextUid + 1
                /\ UNCHANGED authVars
    /\ ev' = NoEvent
    /\ UNCHANGED <<now, ticks, env, absent, procVars, deleted, diskVars, nextSub, firstWritten, submitted,
                   phase, issuedAt>>

\* the records of blogs that the index has never held, by uid
Unseen(blogs) ==
    {blogs[i] : i \in {j \in DOMAIN blogs : blogs[j].uid \notin DOMAIN firstWritten}}

\* await fs.writeFile(metadata.json, JSON.stringify(blogs)); res.json(newBlog)
CreateBlogWriteMeta(r, fail) ==
    /\ slot[r].kind = "createBlog" /\ slot[r].pc = "writeMeta"
    /\ LET req == slot[r]
           new == Unseen(req.loc.blogs)
       IN  IF fail
           THEN /\ Step(r, Answer(req, Internal, "Failed to create blog post"))
                /\ UNCHANGED <<metadata, firstWritten, submitted>>
           ELSE /\ metadata' = req.loc.blogs
                /\ Step(r, Answer(req, OK, req.loc.newBlog))
                /\ firstWritten' =
                      [u \in DOMAIN firstWritten \cup {b.uid : b \in new} |->
                          IF u \in DOMAIN firstWritten THEN firstWritten[u]
                          ELSE CHOOSE b \in new : b.uid = u]
                /\ submitted' =
                      IF req.loc.inline
                      THEN [u \in DOMAIN submitted \cup {req.loc.newBlog.uid} |->
                               IF u = req.loc.newBlog.uid THEN req.loc.content
                               ELSE submitted[u]]
                      ELSE submitted
    /\ SessionEnd(slot[r].client, slot[r].sid)
    /\ ev' = NoEvent
    /\ UNCHANGED <<now, ticks, env, absent, procVars, deleted, files, aboutFile, subscribers, nextUid, nextSub,
                   phase, issuedAt>>

(***************************************************************************)
(* DELETE /api/blogs/:id                                                   *)
(***************************************************************************)
\* requireAuth; blogs = JSON.parse(await fs.readFile(metadata.json)); find
DeleteBlogRecv(r, c, id, fail) ==
    /\ Begin(r)
    /\ LET req == NewReq(r, "deleteBlog", c, id)
           found == FindById(metadata, id)
       IN  IF ~requireAuth(c)
           THEN /\ Recv(r, Answer(req, Unauthorized, "Unauthorized"))
                /\ SessionPassThrough(c)
           ELSE IF fail
           THEN /\ Recv(r, Answer(req, Internal, "Failed to delete blog"))
                /\ SessionPassThrough(c)
           ELSE IF found = <<>>
           THEN /\ Recv(r, Answer(req, NotFound, "Blog not found"))
                /\ SessionPassThrough(c)
           ELSE /\ Recv(r,
                      Await(req, "unlink",
                            [blogs |-> metadata,
                             safeFilename |-> sanitizePath(found[1].filename)]))
                /\ SessionLoad(c)
    /\ ev' = NoEvent
    /\ UNCHANGED <<now, ticks, env, absent, procVars, deleted, diskVars, histVars, phase, issuedAt>>

\* await fs.unlink(`./blogs/${safeFilename}`); blogs = blogs.filter(...)
DeleteBlogUnlink(r, fail) ==
    /\ slot[r].kind = "deleteBlog" /\ slot[r].pc = "unlink"
    /\ LET req == slot[r]
           name == req.loc.safeFilename
       IN  IF fail \/ name \notin DOMAIN files
           THEN /\ Step(r, Answer(req, Internal, "Failed to delete blog"))
                /\ SessionEnd(req.client, req.sid)
                /\ UNCHANGED files
           ELSE /\ files' = Unlink(files, name)
                /\ Step(r,
                      Await(req, "writeMeta", [blogs |-> FilterOutId(req.loc.blogs, req.arg)]))
                /\ UNCHANGED authVars
    /\ ev' = NoEvent
    /\ UNCHANGED <<now, ticks, env, absent, procVars, deleted, metadata, aboutFile, subscribers, histVars,
                   phase, issuedAt>>

\* await fs.writeFile(metadata.json, JSON.stringify(blogs)); res.json(...)
DeleteBlogWriteMeta(r, fail) ==
    /\ slot[r].kind = "deleteBlog" /\ slot[r].pc = "writeMeta"
    /\ LET req == slot[r]
       IN  IF fail
           THEN /\ Step(r, Answer(req, Internal, "Failed to delete blog"))
                /\ UNCHANGED metadata
                /\ UNCHANGED deleted
           ELSE /\ metadata' = req.loc.blogs
                /\ Step(r, Answer(req, OK, "Blog deleted successfully"))
                /\ deleted' = deleted \cup {req.arg}
    /\ SessionEnd(slot[r].client, slot[r].sid)
    /\ ev' = NoEvent
    /\ UNCHANGED <<now, ticks, env, absent, procVars, files, aboutFile, subscribers, histVars,
                   phase, issuedAt>>

(***************************************************************************)
(* Newsletter                                                              *)
(***************************************************************************)
EmailChars ==
    SeqRange(Upper) \cup SeqRange(Lower) \cup SeqRange(Digit) \cup {".", "-", "_", "+"}

\* isEmail(): one '@', a local part and a domain of allowed characters, the
\* domain with a '.' inside it
IsEmail(s) ==
    LET ats == {i \in DOMAIN s : s[i].c = "@"}
    IN  /\ Cardinality(ats) = 1
        /\ LET i == CHOOSE j \in ats : TRUE
               local == SubSeq(s, 1, i - 1)
               domain == SubSeq(s, i + 1, Len(s))
           IN  /\ s[i].n = 1
               /\ local # <<>> /\ domain # <<>>
               /\ Chars(local) \subseteq EmailChars
               /\ Chars(domain) \subseteq EmailChars \ {"_", "+"}
               /\ local[1].c # "." /\ local[Len(local)].c # "."
               /\ \E j \in 2..(Len(domain) - 1) : domain[j] = Run(".", 1)
               /\ domain[Len(domain)].c \in SeqRange(Upper) \cup SeqRange(Lower)

\* normalizeEmail(): the address in lowercase (the rules for the addresses of
\* particular mail providers are not part of the model)
NormalizeEmail(s) == ToLowerCase(s)

\* (mutant) the lookup that finds nothing
ExistingSubscriber_None(subs, email) == <<>>

\* subscribers.find(sub => sub.email.toLowerCase() === email.toLowerCase())
ExistingSubscriber(subs, email) ==
    SelectSeq(subs, LAMBDA sub : ToLowerCase(sub.email) = ToLowerCase(email))

\* body('email').isEmail().normalizeEmail().isLength({max: 100}), then the handler
\* up to its write
SubscribeRecv(r, c, rawEmail, fail) ==
    /\ Begin(r)
    /\ nextSub < MaxSubscribes
    /\ LET req == NewReq(r, "subscribe", c, rawEmail)
           email == NormalizeEmail(rawEmail)
           newSubscriber == [email |-> ToLowerCase(email), subscribedAt |-> now,
                             id |-> NatToStr(now)]
       IN  IF ~IsEmail(rawEmail) \/ StrLen(email) > EMAIL_MAX
           THEN /\ Recv(r,
                      Answer(req, BadRequest, "Please provide a valid email address"))
                /\ SessionPassThrough(c)
                /\ UNCHANGED nextSub
           ELSE IF fail
           THEN /\ Recv(r, Answer(req, Internal, "Failed to subscribe"))
                /\ SessionPassThrough(c)
                /\ UNCHANGED nextSub
           ELSE IF ExistingSubscriber(subscribers, email) # <<>>
           THEN /\ Recv(r,
                      Answer(req, BadRequest, "This email is already subscribed!"))
                /\ SessionPassThrough(c)
                /\ UNCHANGED nextSub
           ELSE /\ Recv(r,
                      Await(req, "write", [subscribers |-> Append(subscribers, newSubscriber)]))
                /\ SessionLoad(c)
                /\ nextSub' = nextSub + 1
    /\ ev' = NoEvent
    /\ UNCHANGED <<now, ticks, env, absent, procVars, deleted, diskVars, nextUid, firstWritten, submitted,
                   phase, issuedAt>>

\* await fs.writeFile(newsletter-subscribers.json, ...); res.json({success: true})
SubscribeWrite(r, fail) ==
    /\ slot[r].kind = "subscribe" /\ slot[r].pc = "write"
    /\ LET req == slot[r]
       IN  IF fail
           THEN /\ Step(r, Answer(req, Internal, "Failed to subscribe"))
                /\ UNCHANGED subscribers
           ELSE /\ subscribers' = req.loc.subscribers
                /\ Step(r, Answer(req, OK, "Thank you for subscribing!"))
    /\ SessionEnd(slot[r].client, slot[r].sid)
    /\ ev' = NoEvent
    /\ UNCHANGED <<now, ticks, env, absent, procVars, deleted, metadata, files, aboutFile, histVars,
                   phase, issuedAt>>

ListSubscribers(r, c, fail) ==
    /\ Begin(r)
    /\ LET req == NewReq(r, "listSubscribers", c, <<>>)
       IN  Recv(r,
              IF ~requireAuth(c) THEN Answer(req, Unauthorized, "Unauthorized")
              ELSE IF fail THEN Answer(req, Internal, "Failed to load subscribers")
              ELSE Answer(req, OK, subscribers))
    /\ SessionPassThrough(c)
    /\ ev' = NoEvent
    /\ UNCHANGED <<now, ticks, env, absent, procVars, deleted, diskVars, histVars, phase, issuedAt>>

DeleteSubscriberRecv(r, c, id, fail) ==
    /\ Begin(r)
    /\ LET req == NewReq(r, "deleteSubscriber", c, id)
       IN  IF ~requireAuth(c)
           THEN /\ Recv(r, Answer(req, Unauthorized, "Unauthorized"))
                /\ SessionPassThrough(c)
           ELSE IF fail
           THEN /\ Recv(r, Answer(req, Internal, "Failed to remove subscriber"))
                /\ SessionPassThrough(c)
           ELSE IF SelectSeq(subscribers, LAMBDA sub : sub.id = id) = <<>>
           THEN /\ Recv(r, Answer(req, NotFound, "Subscriber not found"))
                /\ SessionPassThrough(c)
           ELSE /\ Recv(r,
                      Await(req, "write",
                            [subscribers |-> SelectSeq(subscribers, LAMBDA sub : sub.id # id)]))
                /\ SessionLoad(c)
    /\ ev' = NoEvent
    /\ UNCHANGED <<now, ticks, env, absent, procVars, deleted, diskVars, histVars, phase, issuedAt>>

DeleteSubscriberWrite(r, fail) ==
    /\ slot[r].kind = "deleteSubscriber" /\ slot[r].pc = "write"
    /\ LET req == slot[r]
       IN  IF fail
           THEN /\ Step(r, Answer(req, Internal, "Failed to remove subscriber"))
                /\ UNCHANGED subscribers
           ELSE /\ subscribers' = req.loc.subscribers
                /\ Step(r, Answer(req, OK, "Subscriber removed successfully"))
    /\ SessionEnd(slot[r].client, slot[r].sid)
    /\ ev' = NoEvent
    /\ UNCHANGED <<now, ticks, env, absent, procVars, deleted, metadata, files, aboutFile, histVars,
                   phase, issuedAt>>

(***************************************************************************)
(* The server after initializeStorage() on an empty directory              *)
(***************************************************************************)
(***************************************************************************)
(* Server start                                                            *)
(***************************************************************************)
StorageFiles == {"metadata.json", "newsletter-subscribers.json"}

\* (mutant) the default record written over whatever about.json holds
EnsureAbout_Overwrite(about) == {DefaultAbout}

\* try { await fs.access('./about.json') } catch { await fs.writeFile(..defaultAbout..) }
EnsureAbout(about) == IF about = {} THEN {DefaultAbout} ELSE about

\* try { await fs.access(file) } catch { await fs.writeFile(file, '[]') }
EnsureList(file, list) == IF file \in absent THEN <<>> ELSE list

\* initializeStorage().then(() => app.listen(PORT)): no request is served
\* before it has finished
InitializeStorage ==
    /\ ~up
    /\ metadata' = EnsureList("metadata.json", metadata)
    /\ subscribers' = EnsureList("newsletter-subscribers.json", subscribers)
    /\ aboutFile' = EnsureAbout(aboutFile)
    /\ absent' = {}
    /\ up' = TRUE
    /\ UNCHANGED <<now, ticks, env, loginHits, deleted, authVars, files, slot, resp, ev,
                   histVars, phase, issuedAt>>

\* the memory of a process that has just started
InitMemory(envs) ==
    /\ now = 0
    /\ ticks = 0
    /\ env \in envs
    /\ sessionStore = [c \in Clients |-> {}]
    /\ cookieJar = [c \in Clients |-> {}]
    /\ slot = [r \in Slots |-> IdleSlot]
    /\ ev = NoEvent
    /\ nextUid = 0
    /\ nextSub = 0
    /\ phase = [c \in Clients |-> "never"]
    /\ issuedAt = [c \in Clients |-> 0]
    /\ resp = IdleSlot
    /\ firstWritten = <<>>
    /\ submitted = <<>>
    /\ loginHits = [c \in Clients |-> NoHits]
    /\ deleted = {}

\* the state after initializeStorage on an empty directory, with the server
\* listening, under one of the given environments
InitWith(envs) ==
    /\ InitMemory(envs)
    /\ up = TRUE
    /\ absent = {}
    /\ metadata = <<>>
    /\ files = <<>>
    /\ aboutFile = {DefaultAbout}
    /\ subscribers = <<>>

\* the state after initializeStorage on an empty directory, before any request
Init == InitWith(EnvChoices)

(***************************************************************************)
(* Logging in and out: the clients, the clock and every protected endpoint *)
(***************************************************************************)
\* the username and password a login request submits
Eve == Lit(<<"e","v","e">>)

WrongPassword == Lit(<<"x">>)

LoginInputs ==
    {<<Sophia, Secret>>, <<Concat(Rep(" ", 1), Sophia), Secret>>, <<Eve, Secret>>,
     <<Sophia, WrongPassword>>, <<Sophia, EmptyStr>>}

\* the clock advances by a millisecond, or to just short of a session's lifetime
AuthDeltas == {1, SESSION_MAX_AGE - 1}

\* a create request that carries nothing
EmptyCreate ==
    [title |-> EmptyStr, author |-> EmptyStr, excerpt |-> EmptyStr,
     content |-> EmptyStr, file |-> {}]

NewAboutTitle == Lit(<<"M","e">>)

NewAboutContent == Lit(<<"h","i">>)

AuthSlots == {"r1"}

\* an address makes one login request in a window of the limiter (the limiter
\* itself is the matter of SpecLimit)
LoginStep == \E r \in AuthSlots, c \in Clients, in \in LoginInputs :
                Hit(c).hits = 1 /\ Login(r, c, in[1], in[2])

LogoutStep == \E r \in AuthSlots, c \in Clients : Logout(r, c)

AuthStatusStep == \E r \in AuthSlots, c \in Clients : AuthStatus(r, c)

AuthTick == \E d \in AuthDeltas : Tick(d, MaxTicks)

CallCreate == \E r \in AuthSlots, c \in Clients : CreateBlogRecv(r, c, EmptyCreate, FALSE)

CallDelete == \E r \in AuthSlots, c \in Clients : DeleteBlogRecv(r, c, NatToStr(0), FALSE)

CallPutAbout == \E r \in AuthSlots, c \in Clients :
                   PutAbout(r, c, NewAboutTitle, NewAboutContent)

CallListSubscribers == \E r \in AuthSlots, c \in Clients : ListSubscribers(r, c, FALSE)

CallDeleteSubscriber == \E r \in AuthSlots, c \in Clients :
                           DeleteSubscriberRecv(r, c, NatToStr(0), FALSE)

NextAuth ==
    \/ LoginStep
    \/ LogoutStep
    \/ AuthStatusStep
    \/ AuthTick
    \/ CallCreate
    \/ CallDelete
    \/ CallPutAbout
    \/ CallListSubscribers
    \/ CallDeleteSubscriber

SpecAuth == Init /\ [][NextAuth]_vars

\* the endpoints registered with requireAuth
Protected == {"createBlog", "deleteBlog", "putAbout", "listSubscribers", "deleteSubscriber"}

\* the latest response answers a request to a protected endpoint
Called == resp.kind \in Protected

\* C1 as stated: a call to a protected endpoint is answered Unauthorized when
\* the client has never logged in or has logged out since, and is not answered
\* Unauthorized when it is made after the client's login and before its logout.
C1_AsStated ==
    Called =>
        /\ resp.ph \in {"never", "out"} => resp.status = Unauthorized
        /\ resp.ph = "in" => resp.status # Unauthorized

\* C1 (amended): a call to a protected endpoint is answered Unauthorized when
\* the client has never logged in or has logged out since; it is not answered
\* Unauthorized when it is made after the client's login, before its logout and
\* less than 24 hours after the client's session cookie was issued.
C1_AuthCycle ==
    Called =>
        /\ resp.ph \in {"never", "out"} => resp.status = Unauthorized
        /\ (resp.ph = "in" /\ resp.fresh) => resp.status # Unauthorized

\* a protected call made while logged in, with a cookie issued after the server
\* started, was answered OK
C1_Witness ==
    /\ Called /\ resp.ph = "in" /\ resp.status = OK
    /\ issuedAt[resp.client] > 0

\* the stored session of client c carries isAdmin
IsAdmin(c) == \E s \in sessionStore[c] : s.isAdmin

C13_AbsoluteExpiry ==
    (Called /\ resp.ph = "in") =>
        /\ resp.fresh => resp.status # Unauthorized
        /\ ~resp.fresh => resp.status = Unauthorized

(***************************************************************************)
(* The posts: one logged-in author, requests that overlap                  *)
(***************************************************************************)
Admin == "c1"

MarkdownX == Lit(<<"#"," ","X">>)

MarkdownY == Lit(<<"*","Y","*">>)

\* two posts written in the browser; their titles differ in letter case only
InlineCreates ==
    {[title |-> Lit(<<"a">>), author |-> EmptyStr, excerpt |-> EmptyStr,
      content |-> MarkdownX, file |-> {}],
     [title |-> Lit(<<"A">>), author |-> EmptyStr, excerpt |-> EmptyStr,
      content |-> MarkdownY, file |-> {}]}

\* the ids a request can name: the readings of the clock, in decimal
IdChoices == {NatToStr(t) : t \in 0..MaxMs}

BlogLogin == \E r \in Slots : phase[Admin] = "never" /\ Login(r, Admin, Sophia, Secret)

BlogTick == Tick(1, MaxMs)

BlogCreate == \E r \in Slots, arg \in InlineCreates : CreateBlogRecv(r, Admin, arg, FALSE)

BlogCreateWriteContent == \E r \in Slots : CreateBlogWriteContent(r, FALSE)

BlogCreateReadMeta == \E r \in Slots : CreateBlogReadMeta(r, FALSE)

BlogCreateWriteMeta == \E r \in Slots : CreateBlogWriteMeta(r, FALSE)

BlogDelete == \E r \in Slots, id \in IdChoices : DeleteBlogRecv(r, Admin, id, FALSE)

BlogDeleteUnlink == \E r \in Slots : DeleteBlogUnlink(r, FALSE)

BlogDeleteWriteMeta == \E r \in Slots : DeleteBlogWriteMeta(r, FALSE)

BlogGet == \E r \in Slots, id \in IdChoices : GetBlogRecv(r, Admin, id, FALSE)

BlogGetReadContent == \E r \in Slots : GetBlogReadContent(r, FALSE)

BlogList == \E r \in Slots : ListBlogs(r, Admin, FALSE)

NextBlog ==
    \/ BlogLogin
    \/ BlogTick
    \/ BlogCreate
    \/ BlogCreateWriteContent
    \/ BlogCreateReadMeta
    \/ BlogCreateWriteMeta
    \/ BlogDelete
    \/ BlogDeleteUnlink
    \/ BlogDeleteWriteMeta
    \/ BlogGet
    \/ BlogGetReadContent
    \/ BlogList

SpecBlog == Init /\ [][NextBlog]_vars

\* the ids of the records of a list of posts
IdsOf(blogs) == {blogs[i].id : i \in DOMAIN blogs}

\* C3: a GET /api/blogs/:id that directly follows a DELETE of that id answered OK,
\* with no other request in flight, is answered NotFound, and a GET /api/blogs
\* that follows it so does not list the id.
C3_DeleteThenGet ==
    /\ \A r \in Slots :
          ~(slot[r].kind = "getBlog" /\ slot[r].alone /\ slot[r].arg \in slot[r].prior)
    /\ (resp.alone /\ resp.prior # {}) =>
          /\ (resp.kind = "getBlog" /\ resp.arg \in resp.prior) => resp.status = NotFound
          /\ (resp.kind = "listBlogs" /\ resp.status = OK)
                => IdsOf(resp.body) \cap resp.prior = {}

\* a GET of the id just deleted was answered NotFound, and a post is still listed
C3_Witness ==
    /\ resp.kind = "getBlog" /\ resp.alone /\ resp.arg \in resp.prior
    /\ resp.status = NotFound
    /\ metadata # <<>>

\* C4: after any successful creates, a GET /api/blogs/:id that runs with no other
\* request in flight and returns a post that was created with inline content
\* returns rawContent identical to the markdown submitted for that post.
C4_RoundTrip ==
    (resp.kind = "getBlog" /\ resp.alone /\ resp.status = OK
     /\ resp.body.blog.uid \in DOMAIN submitted)
        => resp.body.rawContent = submitted[resp.body.blog.uid]

\* the dates of a list of posts never increase from one record to the next
NonIncreasing(blogs) ==
    \A i \in 1..(Len(blogs) - 1) : blogs[i].date >= blogs[i + 1].date

\* two lists hold the same records, each as many times
SameRecords(a, b) ==
    /\ Len(a) = Len(b)
    /\ \A x \in {a[i] : i \in DOMAIN a} \cup {b[i] : i \in DOMAIN b} :
          Cardinality({i \in DOMAIN a : a[i] = x}) = Cardinality({i \in DOMAIN b : b[i] = x})

\* C5: every GET /api/blogs answers with exactly the records of the index,
\* ordered by date non-increasing, and leaves the stored index as it was.
C5_ListSorted ==
    [][\A r \in Slots :
          (\E c \in Clients : ListBlogs(r, c, FALSE)) =>
              /\ resp'.kind = "listBlogs" /\ resp'.status = OK
              /\ NonIncreasing(resp'.body)
              /\ SameRecords(resp'.body, metadata)
              /\ metadata' = metadata]_vars

\* a list was answered with two posts of different dates, newest first, while
\* the index holds them oldest first
C5_Witness ==
    /\ resp.kind = "listBlogs" /\ resp.status = OK
    /\ Len(resp.body) = 2 /\ resp.body[1].date > resp.body[2].date
    /\ Len(metadata) = 2 /\ metadata[1].date < metadata[2].date

\* C6: no two records of the index have the same id.
C6_UniqueIds ==
    \A i, j \in DOMAIN metadata : i # j => metadata[i].id # metadata[j].id

\* C7: every record of the index has the id, the date and the file name it had
\* when it was first written to the index.
C7_RecordsImmutable ==
    \A i \in DOMAIN metadata :
        /\ metadata[i].uid \in DOMAIN firstWritten
        /\ metadata[i].id = firstWritten[metadata[i].uid].id
        /\ metadata[i].date = firstWritten[metadata[i].uid].date
        /\ metadata[i].filename = firstWritten[metadata[i].uid].filename

\* a post is in the index after a later post was created and another was deleted
C7_Witness ==
    /\ Len(metadata) = 1
    /\ Cardinality(DOMAIN firstWritten) = 2
    /\ resp.kind = "deleteBlog" /\ resp.status = OK


(***************************************************************************)
(* Creating posts: valid and invalid requests, inline and uploaded         *)
(***************************************************************************)
CreateSlots == {"r1"}

ShortTitle == Lit(<<"a">>)

UploadMd == [originalname |-> Lit(<<"a",".","m","d">>), data |-> MarkdownX]

UploadTooLarge ==
    [originalname |-> Lit(<<"b",".","m","d">>), data |-> Rep("x", CONTENT_MAX + 1)]

\* an upload whose extension the filter does not allow
UploadExe == [originalname |-> Lit(<<"a",".","e","x","e">>), data |-> MarkdownX]

\* a create request with the given title, inline content and file field
CreateArg(title, content, file) ==
    [title |-> title, author |-> EmptyStr, excerpt |-> EmptyStr,
     content |-> content, file |-> file]

\* valid requests (inline, uploaded) and one request for every way to be invalid
CreateInputs ==
    {CreateArg(ShortTitle, MarkdownX, {}),
     CreateArg(ShortTitle, EmptyStr, {UploadMd}),
     CreateArg(EmptyStr, MarkdownX, {}),
     CreateArg(Rep(" ", 2), MarkdownX, {}),
     CreateArg(Rep("t", TITLE_MAX + 1), MarkdownX, {}),
     CreateArg(ShortTitle, EmptyStr, {}),
     CreateArg(ShortTitle, Rep("x", CONTENT_MAX + 1), {}),
     CreateArg(Rep(" ", 2), EmptyStr, {UploadMd}),
     CreateArg(ShortTitle, EmptyStr, {UploadTooLarge}),
     CreateArg(ShortTitle, EmptyStr, {UploadExe})}

CreateLogin == \E r \in CreateSlots : phase[Admin] = "never" /\ Login(r, Admin, Sophia, Secret)

CreateTick == Tick(1, MaxMs)

CreateRecv == \E r \in CreateSlots, arg \in CreateInputs : CreateBlogRecv(r, Admin, arg, FALSE)

CreateValidate == \E r \in CreateSlots : CreateBlogValidate(r)

CreateReadUpload == \E r \in CreateSlots : CreateBlogReadUpload(r, FALSE)

CreateUnlinkUpload == \E r \in CreateSlots : CreateBlogUnlinkUpload(r, FALSE)

CreateWriteContent == \E r \in CreateSlots : CreateBlogWriteContent(r, FALSE)

CreateReadMeta == \E r \in CreateSlots : CreateBlogReadMeta(r, FALSE)

CreateWriteMeta == \E r \in CreateSlots : CreateBlogWriteMeta(r, FALSE)

CreateList == \E r \in CreateSlots : ListBlogs(r, Admin, FALSE)

NextCreate ==
    \/ CreateLogin
    \/ CreateTick
    \/ CreateRecv
    \/ CreateValidate
    \/ CreateReadUpload
    \/ CreateUnlinkUpload
    \/ CreateWriteContent
    \/ CreateReadMeta
    \/ CreateWriteMeta
    \/ CreateList

SpecCreate == Init /\ [][NextCreate]_vars

\* the content a create request carries: the uploaded file's, else the inline
ContentOf(arg) ==
    IF arg.file # {} THEN (CHOOSE f \in arg.file : TRUE).data ELSE arg.content

\* a missing or blank title, a title over 200 characters, neither a file nor
\* inline content, or content over 1,000,000 characters
InvalidCreate(arg) ==
    \/ StrLen(Trim(arg.title)) = 0
    \/ StrLen(arg.title) > TITLE_MAX
    \/ (arg.file = {} /\ arg.content = EmptyStr)
    \/ StrLen(ContentOf(arg)) > CONTENT_MAX

\* C8: an authenticated create request that is invalid is answered BadRequest,
\* and when it has been answered (no other request in flight meanwhile) the
\* index and the files under ./blogs are as they were when it was received,
\* also when the request carried an uploaded file.
C8_InvalidCreateRejected ==
    (resp.kind = "createBlog" /\ resp.status # Unauthorized /\ InvalidCreate(resp.arg)
     /\ resp.alone /\ \A q \in Slots : Free(q))
        => /\ resp.status = BadRequest
           /\ metadata = resp.pre.metadata
           /\ files = resp.pre.files

\* the create request carries a file whose extension is not .md, .markdown, .txt
BadFileType(arg) == \E f \in arg.file : ~fileFilter(f.originalname)

\* C15: an authenticated create request whose uploaded file has an extension
\* other than .md, .markdown or .txt is answered BadRequest, and when it has
\* been answered (no other request in flight meanwhile) no file and no index
\* entry have been stored for it.
C15_BadFileTypeRejected ==
    (resp.kind = "createBlog" /\ resp.status # Unauthorized /\ BadFileType(resp.arg)
     /\ resp.alone /\ \A q \in Slots : Free(q))
        => /\ resp.status = BadRequest
           /\ metadata = resp.pre.metadata
           /\ files = resp.pre.files

(***************************************************************************)
(* Deleting posts when a file operation of the delete can fail             *)
(***************************************************************************)
FaultSlots == {"r1"}

FaultLogin == \E r \in FaultSlots : phase[Admin] = "never" /\ Login(r, Admin, Sophia, Secret)

FaultTick == Tick(1, MaxMs)

FaultCreate ==
    \E r \in FaultSlots : CreateBlogRecv(r, Admin, CreateArg(ShortTitle, MarkdownX, {}), FALSE)

FaultCreateWriteContent == \E r \in FaultSlots : CreateBlogWriteContent(r, FALSE)

FaultCreateReadMeta == \E r \in FaultSlots : CreateBlogReadMeta(r, FALSE)

FaultCreateWriteMeta == \E r \in FaultSlots : CreateBlogWriteMeta(r, FALSE)

\* the three file operations of a delete, each of which can fail
FaultDelete ==
    \E r \in FaultSlots, id \in IdChoices, fail \in BOOLEAN : DeleteBlogRecv(r, Admin, id, fail)

FaultDeleteUnlink == \E r \in FaultSlots, fail \in BOOLEAN : DeleteBlogUnlink(r, fail)

FaultDeleteWriteMeta == \E r \in FaultSlots, fail \in BOOLEAN : DeleteBlogWriteMeta(r, fail)

\* the reads that follow, none of whose file operations fails
FaultGet == \E r \in FaultSlots, id \in IdChoices : GetBlogRecv(r, Admin, id, FALSE)

FaultGetReadContent == \E r \in FaultSlots : GetBlogReadContent(r, FALSE)

NextFault ==
    \/ FaultLogin
    \/ FaultTick
    \/ FaultCreate
    \/ FaultCreateWriteContent
    \/ FaultCreateReadMeta
    \/ FaultCreateWriteMeta
    \/ FaultDelete
    \/ FaultDeleteUnlink
    \/ FaultDeleteWriteMeta
    \/ FaultGet
    \/ FaultGetReadContent

SpecFault == Init /\ [][NextFault]_vars

\* the records of the index whose content file is gone
Orphaned == {i \in DOMAIN metadata : sanitizePath(metadata[i].filename) \notin DOMAIN files}

\* C9: when no request is in flight, no record of the index is without its
\* content file (if one removal of a delete took effect, the index entry is the
\* one that is gone), and a GET /api/blogs/:id whose own file operations do not
\* fail is never answered Internal.
C9_IndexEntryGoesFirst ==
    /\ (\A q \in Slots : Free(q)) => Orphaned = {}
    /\ resp.kind = "getBlog" => resp.status # Internal

(***************************************************************************)
(* The newsletter: subscribes that overlap, and the admin's deletes        *)
(***************************************************************************)
Reader == "c2"

MailLower == Lit(<<"a","@","b",".","c","o">>)

MailUpper == Lit(<<"A","@","B",".","c","o">>)

MailOther == Lit(<<"x","@","b",".","c","o">>)

NotMail == Lit(<<"a","b">>)

Emails == {MailLower, MailUpper, MailOther, NotMail}

NewsLogin == \E r \in Slots : phase[Admin] = "never" /\ Login(r, Admin, Sophia, Secret)

NewsTick == Tick(1, MaxMs)

NewsSubscribe == \E r \in Slots, e \in Emails : SubscribeRecv(r, Reader, e, FALSE)

NewsSubscribeWrite == \E r \in Slots : SubscribeWrite(r, FALSE)

NewsList == \E r \in Slots : ListSubscribers(r, Admin, FALSE)

NewsDelete == \E r \in Slots, id \in IdChoices : DeleteSubscriberRecv(r, Admin, id, FALSE)

NewsDeleteWrite == \E r \in Slots : DeleteSubscriberWrite(r, FALSE)

NextNews ==
    \/ NewsLogin
    \/ NewsTick
    \/ NewsSubscribe
    \/ NewsSubscribeWrite
    \/ NewsList
    \/ NewsDelete
    \/ NewsDeleteWrite

SpecNews == Init /\ [][NextNews]_vars

\* C10: no two records of the subscriber list have emails that are equal when
\* compared case-insensitively.
C10_UniqueEmails ==
    \A i, j \in DOMAIN subscribers :
        i # j => ToLowerCase(subscribers[i].email) # ToLowerCase(subscribers[j].email)

\* two subscribes for one address, written in different letter case, overlapped:
\* the first has been answered OK and is in the list, the second has passed the
\* duplicate check and is about to write
C10_Witness ==
    /\ resp.kind = "subscribe" /\ resp.status = OK
    /\ Len(subscribers) = 1 /\ subscribers[1].email = ToLowerCase(resp.arg)
    /\ \E r \in Slots :
          /\ slot[r].kind = "subscribe" /\ slot[r].pc = "write"
          /\ slot[r].arg # resp.arg
          /\ ToLowerCase(slot[r].arg) = ToLowerCase(resp.arg)

\* the records of the subscriber list for the address e, compared without
\* regard to letter case
RecordsFor(subs, e) == {i \in DOMAIN subs : ToLowerCase(subs[i].email) = ToLowerCase(e)}

\* C11: a subscribe request for an address that the list already holds, up to
\* letter case, is answered Conflict and leaves the list as it was, with exactly
\* one record for the address, stored in lowercase.
C11_DuplicateConflict ==
    [][\A r \in Slots, e \in Emails :
          (SubscribeRecv(r, Reader, e, FALSE) /\ RecordsFor(subscribers, e) # {}) =>
              /\ resp'.status = Conflict
              /\ subscribers' = subscribers
              /\ Cardinality(RecordsFor(subscribers', e)) = 1
              /\ \A i \in RecordsFor(subscribers', e) :
                    subscribers'[i].email = ToLowerCase(e)]_vars

(***************************************************************************)
(* The login limiter: two addresses, right and wrong passwords             *)
(***************************************************************************)
LimitInputs == {<<Sophia, Secret>>, <<Sophia, WrongPassword>>}

\* the clock advances by a millisecond, or to just short of a window's length
LimitDeltas == {1, LOGIN_WINDOW - 1}

\* one address tries right and wrong passwords, the other logs in rightly
Guesser == "c1"

Bystander == "c2"

LimitLogin ==
    \/ \E r \in AuthSlots, in \in LimitInputs : Login(r, Guesser, in[1], in[2])
    \/ \E r \in AuthSlots : Login(r, Bystander, Sophia, Secret)

LimitTick == \E d \in LimitDeltas : Tick(d, MaxTicks)

NextLimit ==
    \/ LimitLogin
    \/ LimitTick

SpecLimit == Init /\ [][NextLimit]_vars

\* the login requests the address of c has made in the limiter's current window
HitsInWindow(c) ==
    IF loginHits[c].hits > 0 /\ now < loginHits[c].resetTime THEN loginHits[c].hits ELSE 0

\* C12: a login request from an address that has made 5 login requests in the
\* current 15-minute window is answered TooManyRequests and does not make the
\* session authenticated, whatever username and password it carries; a login
\* request from an address that has made fewer is not answered TooManyRequests;
\* and a login request leaves the count and the session of every other address
\* as they were.
C12_LoginThrottled ==
    [][\A r \in Slots, c \in Clients, in \in LimitInputs :
          Login(r, c, in[1], in[2]) =>
              /\ HitsInWindow(c) >= LOGIN_MAX =>
                    /\ resp'.status = TooManyRequests
                    /\ IsAdmin(c)' => IsAdmin(c)
              /\ HitsInWindow(c) < LOGIN_MAX => resp'.status # TooManyRequests
              /\ \A d \in Clients \ {c} :
                    /\ loginHits'[d] = loginHits[d]
                    /\ sessionStore'[d] = sessionStore[d]]_vars

\* a login with the right username and password was answered TooManyRequests
\* and its client is not authenticated, while the other address is logged in
C12_Witness ==
    /\ resp.kind = "login" /\ resp.status = TooManyRequests
    /\ resp.arg = [username |-> Sophia, password |-> Secret]
    /\ ~IsAdmin(resp.client)
    /\ \E d \in Clients \ {resp.client} : IsAdmin(d) /\ HitsInWindow(d) < LOGIN_MAX

(***************************************************************************)
(* Logging in when ADMIN_PASSWORD holds the output of generate-hash.js     *)
(***************************************************************************)
\* the leading characters of a bcrypt hash made with 10 salt rounds
BcryptPrefix == Lit(<<"$","2","b","$","1","0","$">>)

\* bcrypt.hash(password, 10) as generate-hash.js prints it: 60 characters, the
\* prefix followed by 53 characters that are determined by the password (and the
\* salt, here one salt); the stand-in for the digest is the password, padded
BcryptHash(password) ==
    Concat(BcryptPrefix, Concat(Substring(password, 53), Rep("/", 53 - StrLen(Substring(password, 53)))))

\* the configured secret is in hash form
IsHashForm(secret) == StrLen(secret) = 60 /\ Substring(secret, 7) = BcryptPrefix

\* the .env that generate-hash.js tells the operator to write
HashedEnv == [ADMIN_USERNAME |-> Sophia, ADMIN_PASSWORD |-> BcryptHash(Secret)]

InitHashed == InitWith(EnvChoices \cup {HashedEnv})

\* logins with the password, with the hash string itself, with another password
HashInputs == {<<Sophia, Secret>>, <<Sophia, BcryptHash(Secret)>>, <<Sophia, WrongPassword>>}

HashLogin == \E r \in AuthSlots, c \in Clients, in \in HashInputs :
                Hit(c).hits = 1 /\ Login(r, c, in[1], in[2])

NextHashed ==
    \/ HashLogin
    \/ LogoutStep
    \/ AuthStatusStep
    \/ AuthTick
    \/ CallListSubscribers

SpecHashed == InitHashed /\ [][NextHashed]_vars

\* C14: a login with the configured username is answered OK exactly when the
\* submitted password verifies against the configured secret: by hash
\* verification when the secret is in hash form (the password the hash was
\* made from succeeds, the hash string itself fails), by string equality
\* otherwise.
C14_HashVerified ==
    (ev.kind = "login" /\ ev.username = env.ADMIN_USERNAME
                       /\ ev.status \in {OK, Unauthorized}) =>
        IF IsHashForm(env.ADMIN_PASSWORD)
        THEN ev.status = OK <=> BcryptHash(ev.password) = env.ADMIN_PASSWORD
        ELSE ev.status = OK <=> ev.password = env.ADMIN_PASSWORD

(***************************************************************************)
(* Persistence operations that fail while a request is handled             *)
(***************************************************************************)
\* a post written in the browser, and an uploaded one
CrashInputs == {CreateArg(ShortTitle, MarkdownX, {}), CreateArg(ShortTitle, EmptyStr, {UploadMd})}

CrashLogin == \E r \in Slots : phase[Admin] = "never" /\ Login(r, Admin, Sophia, Secret)

CrashTick == Tick(1, MaxMs)

CrashCreate ==
    \E r \in Slots, arg \in CrashInputs, fail \in BOOLEAN : CreateBlogRecv(r, Admin, arg, fail)

CrashMkdirFails ==
    \E r \in Slots, arg \in CrashInputs, outcome \in Rejections :
        CreateBlogMkdirFails(r, Admin, arg, outcome)

CrashList == \E r \in Slots, fail \in BOOLEAN : ListBlogs(r, Admin, fail)

\* the next await of the request in slot r completes, or fails (no upload here
\* is over the content limit, so the unlink of an upload is never awaited)
CrashStep(r) ==
    \/ CreateBlogValidate(r)
    \/ \E fail \in BOOLEAN : CreateBlogReadUpload(r, fail)
    \/ \E fail \in BOOLEAN : CreateBlogWriteContent(r, fail)
    \/ \E fail \in BOOLEAN : CreateBlogReadMeta(r, fail)
    \/ \E fail \in BOOLEAN : CreateBlogWriteMeta(r, fail)

CrashSteps == \E r \in Slots : CrashStep(r)

NextCrash ==
    \/ CrashLogin
    \/ CrashTick
    \/ CrashCreate
    \/ CrashMkdirFails
    \/ CrashList
    \/ CrashSteps

\* every file operation that was started completes or fails: the event loop
\* runs the continuation of each request in flight
SpecCrash == Init /\ [][NextCrash]_vars /\ \A r \in Slots : WF_vars(CrashStep(r))

\* C16: the process keeps running, and every request that has been received is
\* eventually answered, also when a persistence operation fails during it.
C16_AlwaysAnswered ==
    /\ []up
    /\ \A r \in Slots : InFlight(r) ~> Free(r)

(***************************************************************************)
(* The excerpt of a new post                                               *)
(***************************************************************************)
\* 153 characters, the symbols at both ends of the first 150 and beyond them
LongMarkdown ==
    Concat(Lit(<<"#", Backtick>>), Concat(Rep("a", 147), Lit(<<"*", "b", "_", "c">>)))

\* 151 characters, none of them a markdown symbol
LongPlain == Rep("x", AUTO_EXCERPT_LEN + 1)

\* content that ends with a full stop
Sentence == Lit(<<"_", "a", ".">>)

ExcerptContents == {MarkdownX, LongMarkdown, LongPlain, Sentence}

\* no excerpt, a short one with a markdown symbol, one of 301 characters
Excerpts == {EmptyStr, Lit(<<"#", "e">>), Concat(Rep("e", EXCERPT_MAX), Rep("Z", 1))}

ExcerptInputs ==
    {[title |-> ShortTitle, author |-> EmptyStr, excerpt |-> e, content |-> c, file |-> {}] :
        e \in Excerpts, c \in ExcerptContents}
    \cup {[title |-> ShortTitle, author |-> EmptyStr, excerpt |-> e, content |-> EmptyStr,
           file |-> {[originalname |-> Lit(<<"a",".","m","d">>), data |-> LongMarkdown]}] :
             e \in Excerpts}

ExcerptLogin == \E r \in CreateSlots : phase[Admin] = "never" /\ Login(r, Admin, Sophia, Secret)

ExcerptTick == Tick(1, MaxMs)

ExcerptRecv == \E r \in CreateSlots, arg \in ExcerptInputs : CreateBlogRecv(r, Admin, arg, FALSE)

ExcerptValidate == \E r \in CreateSlots : CreateBlogValidate(r)

ExcerptReadUpload == \E r \in CreateSlots : CreateBlogReadUpload(r, FALSE)

ExcerptWriteContent == \E r \in CreateSlots : CreateBlogWriteContent(r, FALSE)

ExcerptReadMeta == \E r \in CreateSlots : CreateBlogReadMeta(r, FALSE)

ExcerptWriteMeta == \E r \in CreateSlots : CreateBlogWriteMeta(r, FALSE)

NextExcerpt ==
    \/ ExcerptLogin
    \/ ExcerptTick
    \/ ExcerptRecv
    \/ ExcerptValidate
    \/ ExcerptReadUpload
    \/ ExcerptWriteContent
    \/ ExcerptReadMeta
    \/ ExcerptWriteMeta

SpecExcerpt == Init /\ [][NextExcerpt]_vars

RECURSIVE IsStrPrefix(_, _)
\* e is s cut after some character
IsStrPrefix(e, s) ==
    \/ e = <<>>
    \/ /\ s # <<>>
       /\ Head(e).c = Head(s).c
       /\ IF Len(e) = 1 THEN Head(e).n <= Head(s).n
          ELSE Head(e).n = Head(s).n /\ IsStrPrefix(Tail(e), Tail(s))

\* C17: the record of a create request answered OK is in the index; when the
\* request gave no excerpt, the stored excerpt contains none of '#', '*', '_',
\* ends with '...' and has at most 153 characters; when it gave one, the stored
\* excerpt is the given one cut to its first 300 characters.
C17_Excerpt ==
    (resp.kind = "createBlog" /\ resp.status = OK) =>
        \E i \in DOMAIN metadata :
            /\ metadata[i] = resp.body
            /\ LET e == metadata[i].excerpt
                   given == resp.arg.excerpt
               IN  IF given = EmptyStr
                   THEN /\ Chars(e) \cap {"#", "*", "_"} = {}
                        /\ e[Len(e)].c = "." /\ e[Len(e)].n >= 3
                        /\ StrLen(e) <= AUTO_EXCERPT_LEN + 3
                   ELSE /\ IsStrPrefix(e, given)
                        /\ StrLen(e) = IF StrLen(given) < EXCERPT_MAX THEN StrLen(given)
                                       ELSE EXCERPT_MAX

\* a post made from 153 characters of markdown with symbols has the excerpt of
\* 147 letters and the ellipsis, and a post given 301 characters stores 300
C17_Witness ==
    /\ resp.kind = "createBlog" /\ resp.status = OK
    /\ \E i, j \in DOMAIN metadata :
          /\ metadata[i].excerpt = Concat(Rep("a", 147), Rep(".", 3))
          /\ metadata[j].excerpt = Rep("e", EXCERPT_MAX)

(***************************************************************************)
(* Overlapping writers of the index                                        *)
(***************************************************************************)
\* the step answers the request in slot r, a request of the given kind, with OK
AnsweredOK(r, kind) ==
    /\ slot[r].kind = kind /\ InFlight(r)
    /\ Free(r)'
    /\ resp'.status = OK

\* C18: the request that writes the index last has its effect in it: in the
\* step that answers a create with OK the created record is in the index, and
\* in the step that answers a delete with OK the id is not, whatever requests
\* overlap with it. (That the other writer's effect can be lost meanwhile is
\* the witness.)
C18_LastWriteWins ==
    [][\A r \in Slots :
          /\ AnsweredOK(r, "createBlog") =>
                \E i \in DOMAIN metadata' : metadata'[i] = resp'.body
          /\ AnsweredOK(r, "deleteBlog") => resp'.arg \notin IdsOf(metadata')]_vars

\* two creates were answered OK with records of different ids, no delete has
\* been answered OK, no request is in flight, and the index holds one post
C18_Witness ==
    /\ \E u, v \in DOMAIN firstWritten : firstWritten[u].id # firstWritten[v].id
    /\ deleted = {}
    /\ \A r \in Slots : Free(r)
    /\ Len(metadata) = 1

(***************************************************************************)
(* Starting the server over the data of an earlier run                     *)
(***************************************************************************)
\* a post, a subscriber and an about record that an earlier run left behind
EarlierPost ==
    [id |-> Lit(<<"7">>), title |-> ShortTitle, author |-> Anonymous, date |-> 0,
     excerpt |-> AutoExcerpt(MarkdownX), filename |-> Lit(<<"7","-","a",".","m","d">>),
     uid |-> 0]

EarlierSubscriber == [email |-> MailLower, subscribedAt |-> 0, id |-> Lit(<<"5">>)]

CustomAbout == [title |-> NewAboutTitle, content |-> NewAboutContent]

\* the process has started and initializeStorage has not run yet: each of the
\* three files is absent, or holds what an earlier run wrote
InitBoot ==
    /\ InitMemory(EnvChoices)
    /\ up = FALSE
    /\ absent \in SUBSET StorageFiles
    /\ metadata \in IF "metadata.json" \in absent THEN {<<>>} ELSE {<<>>, <<EarlierPost>>}
    /\ files = IF metadata = <<>> THEN <<>>
               ELSE WriteFile(<<>>, EarlierPost.filename, MarkdownX)
    /\ subscribers \in IF "newsletter-subscribers.json" \in absent THEN {<<>>}
                       ELSE {<<>>, <<EarlierSubscriber>>}
    /\ aboutFile \in {{}, {DefaultAbout}, {CustomAbout}}

BootLogin == \E r \in AuthSlots : phase[Admin] = "never" /\ Login(r, Admin, Sophia, Secret)

BootGetAbout == \E r \in AuthSlots, c \in Clients : GetAbout(r, c)

BootPutAbout ==
    \E r \in AuthSlots, t \in {NewAboutTitle, EmptyStr} : PutAbout(r, Admin, t, NewAboutContent)

BootListBlogs == \E r \in AuthSlots : ListBlogs(r, Reader, FALSE)

BootListSubscribers == \E r \in AuthSlots : ListSubscribers(r, Admin, FALSE)

NextBoot ==
    \/ InitializeStorage
    \/ BootLogin
    \/ BootGetAbout
    \/ BootPutAbout
    \/ BootListBlogs
    \/ BootListSubscribers

SpecBoot == InitBoot /\ [][NextBoot]_vars

\* C19: the step in which the server starts leaves every post, every content
\* file and every subscriber as stored and leaves an existing about record as it
\* is; it makes an absent index and an absent subscriber list empty lists and an
\* absent about record the default record; and every GET /api/about served
\* afterwards finds a record and is answered OK.
C19_StartupKeepsData ==
    [][/\ (~up /\ up') =>
             /\ absent' = {}
             /\ metadata' = IF "metadata.json" \in absent THEN <<>> ELSE metadata
             /\ subscribers' = IF "newsletter-subscribers.json" \in absent THEN <<>>
                               ELSE subscribers
             /\ files' = files
             /\ aboutFile # {} => aboutFile' = aboutFile
             /\ aboutFile = {} => aboutFile' = {DefaultAbout}
       /\ \A r \in Slots, c \in Clients : GetAbout(r, c) => resp'.status = OK]_vars

\* the server was started over a post, a subscriber and an about record of an
\* earlier run, and a GET /api/about has returned that about record
C19_Witness ==
    /\ up
    /\ metadata = <<EarlierPost>> /\ subscribers = <<EarlierSubscriber>>
    /\ resp.kind = "getAbout" /\ resp.status = OK
    /\ resp.body.title = CustomAbout.title /\ aboutFile = {CustomAbout}
    /\ phase[Admin] = "never"

\* the posts ever written to the index have ids that differ from one another
DistinctIds ==
    \A u, v \in DOMAIN firstWritten : u # v => firstWritten[u].id # firstWritten[v].id

\* C20: once a DELETE /api/blogs/:id has been answered OK for an id, no record
\* of the index has that id, whatever creates and deletes of other posts run
\* concurrently with the delete or after it (the posts having ids of their own).
C20_DeletedIsTerminal == DistinctIds => IdsOf(metadata) \cap deleted = {}

(***************************************************************************)
(* Logging in under the usernames and passwords a deployment can configure *)
(***************************************************************************)
\* usernames of 1 to 50 characters: plain, with a character that escape()
\* rewrites, with a leading blank (a quoted value of .env), of 50 characters
QuotedName == Lit(<<"o","'","n","e","i","l">>)

PaddedName == Concat(Rep(" ", 1), Sophia)

LongName == Rep("u", USERNAME_MAX)

ConfigUsernames == {Sophia, QuotedName, PaddedName, LongName}

\* passwords of 1 to 100 characters: plain, with blanks and symbols, of 100
ConfigPasswords == {Secret, Lit(<<" ","<","p",">"," ">>), Rep("p", PASSWORD_MAX)}

ConfigEnvs == {[ADMIN_USERNAME |-> u, ADMIN_PASSWORD |-> p] :
                  u \in ConfigUsernames, p \in ConfigPasswords}

InitConfig == InitWith(ConfigEnvs)

\* a login that submits exactly the configured username and password
ConfigLoginExact ==
    \E r \in AuthSlots, c \in Clients :
        Hit(c).hits = 1 /\ Login(r, c, env.ADMIN_USERNAME, env.ADMIN_PASSWORD)

\* a login with another password
ConfigLoginWrong ==
    \E r \in AuthSlots, c \in Clients :
        Hit(c).hits = 1 /\ Login(r, c, env.ADMIN_USERNAME, WrongPassword)

NextConfig ==
    \/ ConfigLoginExact
    \/ ConfigLoginWrong
    \/ LogoutStep
    \/ AuthStatusStep
    \/ AuthTick

SpecConfig == InitConfig /\ [][NextConfig]_vars

\* C21: a login request that is not throttled and submits exactly the
\* configured ADMIN_USERNAME and ADMIN_PASSWORD is answered OK and leaves the
\* client's session authenticated.
C21_ConfiguredLoginSucceeds ==
    (resp.kind = "login" /\ resp.status # TooManyRequests
     /\ resp.arg.username = env.ADMIN_USERNAME
     /\ resp.arg.password = env.ADMIN_PASSWORD)
        => resp.status = OK /\ IsAdmin(resp.client)

(***************************************************************************)
(* The protected endpoints, called with and without a login, over data     *)
(***************************************************************************)
GateUploads == {CreateArg(ShortTitle, EmptyStr, {UploadMd})}

\* the ids a request can name for a subscriber: the readings of the clock
GateIds == {NatToStr(t) : t \in 0..MaxMs}

GateLogin == \E r \in AuthSlots : phase[Admin] = "never" /\ Login(r, Admin, Sophia, Secret)

GateLogout == \E r \in AuthSlots : Logout(r, Admin)

GateTick == Tick(1, MaxMs)

GateSubscribe == \E r \in AuthSlots : SubscribeRecv(r, Reader, MailLower, FALSE)

GateSubscribeWrite == \E r \in AuthSlots : SubscribeWrite(r, FALSE)

\* a request of client c to one of the endpoints registered with requireAuth
GateRequest(r, c) ==
    \/ \E arg \in GateUploads : CreateBlogRecv(r, c, arg, FALSE)
    \/ \E id \in GateIds : DeleteBlogRecv(r, c, id, FALSE)
    \/ PutAbout(r, c, NewAboutTitle, NewAboutContent)
    \/ ListSubscribers(r, c, FALSE)
    \/ \E id \in GateIds : DeleteSubscriberRecv(r, c, id, FALSE)

GateCall == \E r \in AuthSlots, c \in Clients : GateRequest(r, c)

\* the next await of the request in flight completes
GateStep ==
    \E r \in AuthSlots :
        \/ CreateBlogValidate(r)
        \/ CreateBlogReadUpload(r, FALSE)
        \/ CreateBlogReadMeta(r, FALSE)
        \/ CreateBlogWriteMeta(r, FALSE)
        \/ DeleteBlogUnlink(r, FALSE)
        \/ DeleteBlogWriteMeta(r, FALSE)
        \/ DeleteSubscriberWrite(r, FALSE)

NextGate ==
    \/ GateLogin
    \/ GateLogout
    \/ GateTick
    \/ GateSubscribe
    \/ GateSubscribeWrite
    \/ GateCall
    \/ GateStep

SpecGate == Init /\ [][NextGate]_vars

\* C22: a step that answers a request to a protected endpoint with
\* Unauthorized leaves the post index, the content files, the about record and
\* the subscriber list as they were, also when the request is a create that
\* carries an uploaded file.
C22_UnauthorizedWritesNothing ==
    [][\A r \in AuthSlots, c \in Clients :
          (GateRequest(r, c) /\ Free(r)' /\ resp'.status = Unauthorized)
              => UNCHANGED diskVars]_vars

\* a create with an uploaded file was answered Unauthorized after the admin
\* had logged out, over an index, files and a subscriber list that hold data
C22_Witness ==
    /\ resp.kind = "createBlog" /\ resp.status = Unauthorized /\ resp.arg.file # {}
    /\ resp.ph = "out"
    /\ metadata # <<>> /\ subscribers # <<>>
    /\ files = resp.pre.files /\ DOMAIN files # {}

(***************************************************************************)
(* File names: titles and upload names that try to leave ./blogs           *)
(***************************************************************************)
PathSeparators == {"/", "\\"}

\* '../a', '..\a' and 'a/..'
PathTitles ==
    {Lit(<<".",".","/","a">>), Lit(<<".",".","\\","a">>), Lit(<<"a","/",".",".">>)}

\* '../../x.md', '/etc/y.txt', '..\z.md' and '...md'
PathUploadNames ==
    {Lit(<<".",".","/",".",".","/","x",".","m","d">>),
     Lit(<<"/","e","t","c","/","y",".","t","x","t">>),
     Lit(<<".",".","\\","z",".","m","d">>),
     Lit(<<".",".",".","m","d">>)}

PathInputs ==
    {CreateArg(t, MarkdownX, {}) : t \in PathTitles}
    \cup {CreateArg(ShortTitle, EmptyStr, {[originalname |-> n, data |-> MarkdownX]}) :
             n \in PathUploadNames}

PathLogin == \E r \in CreateSlots : phase[Admin] = "never" /\ Login(r, Admin, Sophia, Secret)

PathTick == Tick(1, MaxMs)

PathCreate == \E r \in CreateSlots, arg \in PathInputs : CreateBlogRecv(r, Admin, arg, FALSE)

PathGet == \E r \in CreateSlots, id \in IdChoices : GetBlogRecv(r, Reader, id, FALSE)

PathDelete == \E r \in CreateSlots, id \in IdChoices : DeleteBlogRecv(r, Admin, id, FALSE)

\* the next await of the request in flight completes
PathStep ==
    \E r \in CreateSlots :
        \/ CreateBlogValidate(r)
        \/ CreateBlogReadUpload(r, FALSE)
        \/ CreateBlogWriteContent(r, FALSE)
        \/ CreateBlogReadMeta(r, FALSE)
        \/ CreateBlogWriteMeta(r, FALSE)
        \/ GetBlogReadContent(r, FALSE)
        \/ DeleteBlogUnlink(r, FALSE)
        \/ DeleteBlogWriteMeta(r, FALSE)

NextPath ==
    \/ PathLogin
    \/ PathTick
    \/ PathCreate
    \/ PathGet
    \/ PathDelete
    \/ PathStep

SpecPath == Init /\ [][NextPath]_vars

\* a name of a file directly inside the storage directory
InsideBlogs(name) ==
    /\ Chars(name) \cap PathSeparators = {}
    /\ name \notin {EmptyStr, Rep(".", 1), Rep(".", 2)}

\* C23: no filename of the index and no name of a stored file contains a path
\* separator, and the name that a get is about to read or a delete is about to
\* unlink is the stored filename of the post and names a file directly inside
\* ./blogs.
C23_StaysInsideBlogs ==
    /\ \A i \in DOMAIN metadata : InsideBlogs(metadata[i].filename)
    /\ \A name \in DOMAIN files : InsideBlogs(name)
    /\ \A r \in Slots :
          slot[r].pc \in {"readContent", "unlink"} =>
              /\ InsideBlogs(slot[r].loc.safeFilename)
              /\ \E u \in DOMAIN firstWritten :
                    firstWritten[u].filename = slot[r].loc.safeFilename

\* a post whose title holds '/' was read by a get, after a post was deleted
C23_Witness ==
    /\ resp.kind = "getBlog" /\ resp.status = OK
    /\ "/" \in Chars(resp.body.blog.title)
    /\ deleted # {}

=============================================================================
